---- MODULE Spec2Model ----
(***************************************************************************)
(* The hand-gesture LED pipeline of coronafloat/hand-gesture-led.          *)
(*                                                                         *)
(* Two React components are modelled, chosen by `variant`:                 *)
(*   "App"          src/unnamed/part_000: the camera starts on mount and   *)
(*                  every classified frame is sent to the ESP32;           *)
(*   "HandGesture"  src/src/components/HandGesture.jsx: the camera is      *)
(*                  switched by a toggle button and nothing is sent.       *)
(*                                                                         *)
(* Coordinates are integers; distances are kept squared, so that the test  *)
(* ratio > 1.7 is decided exactly (see RatioAboveThreshold).               *)
(***************************************************************************)
EXTENDS Integers, Sequences, FiniteSets, TLC

\* Bounds of the model.
MaxFrames == 3       \* frames the capture sources deliver in one run
MaxToggles == 3      \* clicks on the toggle button in one run

\* threshold = 1.7, kept as the fraction ThresholdNum / ThresholdDen.
ThresholdNum == 17
ThresholdDen == 10

VARIABLES
    variant,       \* which of the two components runs
    phase,         \* "rendered" (before the mount effect), "mounted", "unmounted"
    cameraActive,  \* useState(false) of HandGesture; unused by App
    videoRef,      \* "video" while the <video> element is attached, else "null"
    canvasRef,     \* "canvas" while the <canvas> element is attached, else "null"
    handsRef,      \* id of the Hands instance in handsRef.current, 0 for null
    cameraRef,     \* id of the Camera in cameraRef.current, 0 for null
    hands,         \* number of Hands instances constructed so far
    cameras,       \* cameras[c] is "running" or "stopped", for every Camera constructed
    inflight,      \* frames handed to a detector whose result has not been delivered
    frames,        \* number of frames captured so far
    toggles,       \* number of clicks so far
    gestureText,   \* useState("OFF"): the status label
    canvas,        \* what the 2D context last painted
    requests,      \* every fetch issued, in the order of dispatch
    pending,       \* indices of the requests whose promise has not settled
    console,       \* the kind of the last console line of sendGestureToESP32
    faults,        \* exceptions that left onResults uncaught
    frameFaults,   \* rejections that left onFrame uncaught
    stalled,       \* Cameras whose frame loop ended on such a rejection
    sentFor,       \* history: sentFor[i] is the frame whose result issued requests[i]
    labelFrame,    \* history: the newest frame whose hand has been classified
    clsInput,      \* SpecClassify: the landmarks handed to areAllFingersOpen
    clsDone,       \* SpecClassify: areAllFingersOpen has returned
    clsOutput,     \* SpecClassify: what it returned
    trBy,          \* SpecClassify: the scaling or translation applied to clsInput
    trInput,       \* SpecClassify: the scaled or translated landmarks
    trOutput       \* SpecClassify: what areAllFingersOpen returned for them

vars == <<variant, phase, cameraActive, videoRef, canvasRef, handsRef, cameraRef,
          hands, cameras, inflight, frames, toggles, gestureText, canvas,
          requests, pending, console, faults, frameFaults, stalled, sentFor,
          labelFrame, clsInput, clsDone, clsOutput, trBy, trInput, trOutput>>

componentVars == <<phase, cameraActive, videoRef, canvasRef, handsRef, cameraRef,
                   hands, cameras, gestureText, canvas, requests, pending, console,
                   faults>>

loopVars == <<frameFaults, stalled>>

historyVars == <<sentFor, labelFrame>>

clsVars == <<clsInput, clsDone, clsOutput, trBy, trInput, trOutput>>

-----------------------------------------------------------------------------
(* Landmarks and the classifier                                            *)

\* A landmark is the double triple (x * 2^e, y * 2^e, z * 2^e) with integer
\* x, y, z below 2^15 in size and -1074 <= e <= 1000, so that each coordinate
\* is a double; the landmarks of one observation share e.  The detector's
\* landmarks have e = 0.
Pt(x, y, z) == [x |-> x, y |-> y, z |-> z, e |-> 0]

PtAdd(p, q) == [x |-> p.x + q.x, y |-> p.y + q.y, z |-> p.z + q.z, e |-> p.e]

Sq(a) == a * a

\* The exponent of the unit in which the squares at exponent e are counted:
\* 2^(2e), or the smallest double 2^-1074 when 2^(2e) is below it.
UnitExp(e) == IF 2 * e >= -1074 THEN 2 * e ELSE -1074

\* n / 2^s rounded to the nearest integer, ties to even, for n < 2^30.
RoundShift(n, s) ==
    IF s >= 31 THEN 0
    ELSE LET q == n \div 2^s
             r == n % 2^s
         IN  IF r > 2^(s - 1) \/ (r = 2^(s - 1) /\ q % 2 = 1) THEN q + 1 ELSE q

\* Math.pow(d * 2^e, 2) in units of 2^UnitExp(e): exact when 2^(2e) is a
\* double, rounded to a multiple of 2^-1074 (possibly 0) below that.
PowTwo(d, e) ==
    IF 2 * e >= -1074 THEN Sq(d) ELSE RoundShift(Sq(d), -1074 - 2 * e)

\* distSq taking the first point's own coordinates for the differences.
distSq_FromOrigin(p1, p2) ==
    PowTwo(p1.x, p1.e) + PowTwo(p1.y, p1.e) + PowTwo(p1.z, p1.e)

\* The argument of Math.sqrt in dist(p1, p2), in units of 2^UnitExp(e).  The
\* differences are exact, and so are the two additions: the squares are
\* multiples of one unit and their sum has fewer than 53 bits.
distSq(p1, p2) ==
    PowTwo(p1.x - p2.x, p1.e) + PowTwo(p1.y - p2.y, p1.e)
        + PowTwo(p1.z - p2.z, p1.e)

\* sq * 2^u is 2^1024 or more, which is Infinity as a double: a square
\* overflows, or the sum does.
Overflows(sq, u) == u >= 1024 \/ (u >= 994 /\ sq >= 2^(1024 - u))

\* dist(p1, p2) as a double: 0, Infinity, or sqrt(sq) * 2^(UnitExp(e) / 2),
\* the correctly rounded root of sq scaled by a power of two.
dist(p1, p2) ==
    LET sq == distSq(p1, p2)
    IN  IF sq = 0 THEN [kind |-> "zero", sq |-> 0]
        ELSE IF Overflows(sq, UnitExp(p1.e)) THEN [kind |-> "inf", sq |-> 0]
        ELSE [kind |-> "finite", sq |-> sq]

-----------------------------------------------------------------------------
(* Double arithmetic: Math.sqrt, / and > on positive finite doubles        *)

\* A natural number below 2^60 in two words of 30 bits.
Word == 2^30

Big(hi, lo) == [hi |-> hi, lo |-> lo]

BigDouble(a) == Big(2 * a.hi + (2 * a.lo) \div Word, (2 * a.lo) % Word)

BigAdd(a, n) == Big(a.hi + (a.lo + n) \div Word, (a.lo + n) % Word)

BigHalf(a) == Big(a.hi \div 2, (a.hi % 2) * (Word \div 2) + a.lo \div 2)

BigGeq(a, b) == a.hi > b.hi \/ (a.hi = b.hi /\ a.lo >= b.lo)

BigSub(a, b) ==
    IF a.lo >= b.lo
    THEN Big(a.hi - b.hi, a.lo - b.lo)
    ELSE Big(a.hi - b.hi - 1, a.lo + Word - b.lo)

\* 54 bits: the 53 of a double's significand and the rounding bit.
Has54Bits(a) == a.hi >= 2^23

\* The double m * 2^e nearest to (q + fraction) * 2^(e - 1), where q has 54
\* bits and inexact says that the fraction is not 0: round to nearest, ties
\* to even.
RoundToDouble(q, inexact, e) ==
    LET m == BigHalf(q)
        up == (q.lo % 2 = 1) /\ (inexact \/ m.lo % 2 = 1)
        r == IF up THEN BigAdd(m, 1) ELSE m
    IN  IF Has54Bits(r)
        THEN [m |-> BigHalf(r), e |-> e + 1]
        ELSE [m |-> r, e |-> e]

\* The double m * 2^e with a 53-bit significand.
RECURSIVE Normalized(_, _)
Normalized(m, e) ==
    IF m.hi >= 2^22 THEN [m |-> m, e |-> e] ELSE Normalized(BigDouble(m), e - 1)

\* The first of the 16 pairs of bits of n that is not 00.
RECURSIVE FirstPair(_, _)
FirstPair(n, i) ==
    IF i = 15 \/ n >= 4^(15 - i) THEN i ELSE FirstPair(n, i + 1)

\* The square root of n bit by bit: i pairs of bits of n (16 pairs, then
\* zeros) are consumed, res is the root so far and rem the remainder.  A
\* remainder of 0 once n is consumed means that res is the root exactly.
RECURSIVE SqrtBits(_, _, _, _)
SqrtBits(n, i, res, rem) ==
    IF Has54Bits(res)
    THEN RoundToDouble(res, rem # Big(0, 0), 17 - i)
    ELSE IF i >= 16 /\ rem = Big(0, 0)
    THEN Normalized(res, 16 - i)
    ELSE LET pair == IF i < 16 THEN (n \div 4^(15 - i)) % 4 ELSE 0
             r == BigAdd(BigDouble(BigDouble(rem)), pair)
             trial == BigAdd(BigDouble(BigDouble(res)), 1)
         IN  IF BigGeq(r, trial)
             THEN SqrtBits(n, i + 1, BigAdd(BigDouble(res), 1), BigSub(r, trial))
             ELSE SqrtBits(n, i + 1, BigDouble(res), r)

\* Math.sqrt(n) for an integer n > 0: the correctly rounded root.
FSqrt(n) == SqrtBits(n, FirstPair(n, 0), Big(0, 0), Big(0, 0))

\* The quotient bit by bit: q is the quotient so far of a shifted k times.
RECURSIVE DivBits(_, _, _, _, _)
DivBits(rem, d, q, k, e) ==
    IF Has54Bits(q)
    THEN RoundToDouble(q, rem # Big(0, 0), e - k + 1)
    ELSE LET r == BigDouble(rem)
         IN  IF BigGeq(r, d)
             THEN DivBits(BigSub(r, d), d, BigAdd(BigDouble(q), 1), k + 1, e)
             ELSE DivBits(r, d, BigDouble(q), k + 1, e)

\* a / b for two doubles with 53-bit significands: correctly rounded.
FDiv(a, b) ==
    IF BigGeq(a.m, b.m)
    THEN DivBits(BigSub(a.m, b.m), b.m, Big(0, 1), 0, a.e - b.e)
    ELSE DivBits(a.m, b.m, Big(0, 0), 0, a.e - b.e)

FGreater(a, b) ==
    \/ a.e > b.e
    \/ a.e = b.e /\ BigGeq(a.m, b.m) /\ a.m # b.m

\* The double of a positive integer below 2^30.
FromInt(n) == Normalized(Big(0, n), 0)

\* const threshold = 1.7: the double nearest to 17 / 10.
threshold == FDiv(FromInt(ThresholdNum), FromInt(ThresholdDen))

\* tipSq : baseSq is exactly 289 : 100.
OnThreshold(tipSq, baseSq) ==
    Sq(ThresholdDen) * tipSq = Sq(ThresholdNum) * baseSq

\* The integer part of the square root of n < 2^30, bit by bit.
RECURSIVE RootBits(_, _, _)
RootBits(n, bit, r) ==
    IF bit = 0 THEN r
    ELSE IF Sq(r + bit) <= n
         THEN RootBits(n, bit \div 2, r + bit)
         ELSE RootBits(n, bit \div 2, r)

IsSquare(n) == Sq(RootBits(n, 2^14, 0)) = n

\* RatioAboveThreshold with >= in place of >.
RatioAboveThreshold_NonStrict(tip, base) ==
    CASE base.kind = "zero" -> tip.kind # "zero"
      [] base.kind = "inf" -> FALSE
      [] OTHER ->
           \/ tip.kind = "inf"
           \/ /\ tip.kind = "finite"
              /\ IF ~OnThreshold(tip.sq, base.sq)
                 THEN Sq(ThresholdDen) * tip.sq > Sq(ThresholdNum) * base.sq
                 ELSE IF IsSquare(base.sq)
                 THEN TRUE
                 ELSE ~FGreater(threshold, FDiv(FSqrt(tip.sq), FSqrt(base.sq)))

\* tip / base > threshold for two distances of one observation.  A zero
\* denominator gives Infinity (greater than the threshold) for a nonzero
\* numerator and NaN (greater than nothing) for 0 / 0; Infinity / Infinity is
\* NaN and finite / Infinity is 0.  For two finite distances the common 2^e
\* cancels in the division, and:
\*  - off 289 : 100 the real ratio is further from 1.7 than rounding can move
\*    the quotient (by more than 10^-12 for squares below 2^31 / 289, against
\*    10^-15), so the comparison of the squares is that of the doubles;
\*  - on 289 : 100 with perfect squares both roots are exact and the quotient
\*    is the double nearest to 17 / 10, which is threshold: not greater;
\*  - on 289 : 100 otherwise the rounding of the two roots and of the quotient
\*    decides (2890 : 1000 gives 1.7000000000000002), and they are computed.
RatioAboveThreshold(tip, base) ==
    CASE base.kind = "zero" -> tip.kind # "zero"
      [] base.kind = "inf" -> FALSE
      [] OTHER ->
           \/ tip.kind = "inf"
           \/ /\ tip.kind = "finite"
              /\ IF ~OnThreshold(tip.sq, base.sq)
                 THEN Sq(ThresholdDen) * tip.sq > Sq(ThresholdNum) * base.sq
                 ELSE IF IsSquare(base.sq)
                 THEN FALSE
                 ELSE FGreater(FDiv(FSqrt(tip.sq), FSqrt(base.sq)), threshold)

\* The landmark indices areAllFingersOpen reads.
ReadIndices == {0, 2, 4, 5, 8, 9, 12, 13, 16, 17, 20}

\* areAllFingersOpen(landmarks): threw is TRUE when a landmark it reads is
\* undefined (reading .x of undefined is a TypeError); all five ratios are
\* computed before the conjunction, so nothing is short-circuited past it.
areAllFingersOpen(landmarks) ==
    IF \E i \in ReadIndices : i \notin DOMAIN landmarks
    THEN [threw |-> TRUE, value |-> FALSE]
    ELSE LET thumbIsOpen ==
                 RatioAboveThreshold(dist(landmarks[4], landmarks[0]),
                                     dist(landmarks[2], landmarks[0]))
             indexIsOpen ==
                 RatioAboveThreshold(dist(landmarks[8], landmarks[0]),
                                     dist(landmarks[5], landmarks[0]))
             middleIsOpen ==
                 RatioAboveThreshold(dist(landmarks[12], landmarks[0]),
                                     dist(landmarks[9], landmarks[0]))
             ringIsOpen ==
                 RatioAboveThreshold(dist(landmarks[16], landmarks[0]),
                                     dist(landmarks[13], landmarks[0]))
             pinkyIsOpen ==
                 RatioAboveThreshold(dist(landmarks[20], landmarks[0]),
                                     dist(landmarks[17], landmarks[0]))
         IN  [threw |-> FALSE,
              value |-> thumbIsOpen /\ indexIsOpen /\ middleIsOpen
                          /\ ringIsOpen /\ pinkyIsOpen]

-----------------------------------------------------------------------------
(* Inputs: hand observations                                               *)

\* The (tip, base) landmark indices of the five fingers, in the order
\* thumb, index, middle, ring, pinky.
FingerTip == <<4, 8, 12, 16, 20>>
FingerBase == <<2, 5, 9, 13, 17>>

\* Shapes of one finger, as offsets of its base and tip from the wrist.
FingerShapes ==
    { [base |-> Pt(10, 0, 0), tip |-> Pt(17, 0, 0)],   \* ratio exactly 1.7
      [base |-> Pt(10, 0, 0), tip |-> Pt(18, 0, 0)],   \* ratio 1.8
      [base |-> Pt(0, 6, 8),  tip |-> Pt(12, 9, 8)],   \* ratio exactly 1.7, in depth
      [base |-> Pt(0, 0, 0),  tip |-> Pt(5, 0, 0)],    \* x / 0
      [base |-> Pt(0, 0, 0),  tip |-> Pt(0, 0, 0)] }   \* 0 / 0

\* Shapes of ratio exactly 1.7 whose distances are irrational: the first is
\* computed as 1.7000000000000002, the second as 1.7 (and as
\* 1.7000000000000002 when scaled by 45).
RoundedShapes ==
    { [base |-> Pt(0, 10, 30), tip |-> Pt(0, 17, 51)],
      [base |-> Pt(10, 10, 0), tip |-> Pt(17, 17, 0)] }

Wrists == { Pt(0, 0, 0), Pt(1, 2, 3) }

\* The first n landmarks of the hand with the given wrist and finger shapes;
\* the joints the classifier does not read sit on the finger's base.
Hand(n, wrist, shape) ==
    [i \in 0 .. (n - 1) |->
        IF i = 0 THEN wrist
        ELSE LET f == ((i - 1) \div 4) + 1
             IN  IF i = FingerTip[f]
                 THEN PtAdd(wrist, shape[f].tip)
                 ELSE PtAdd(wrist, shape[f].base)]

AllOpenShape == [f \in 1 .. 5 |-> [base |-> Pt(10, 0, 0), tip |-> Pt(18, 0, 0)]]

OpenHand == Hand(21, Pt(0, 0, 0), AllOpenShape)

\* The pinky is folded: its ratio is exactly 1.7.
FistHand ==
    Hand(21, Pt(0, 0, 0),
         [AllOpenShape EXCEPT ![5] = [base |-> Pt(10, 0, 0), tip |-> Pt(17, 0, 0)]])

\* An observation that is one landmark short.
ShortHand == Hand(20, Pt(0, 0, 0), AllOpenShape)

\* What a detector can report for the frame `image`.
ResultsOf(image) ==
    { [image |-> image, hasField |-> FALSE, multiHandLandmarks |-> <<>>],
      [image |-> image, hasField |-> TRUE, multiHandLandmarks |-> <<>>],
      [image |-> image, hasField |-> TRUE, multiHandLandmarks |-> <<OpenHand>>],
      [image |-> image, hasField |-> TRUE, multiHandLandmarks |-> <<FistHand>>],
      [image |-> image, hasField |-> TRUE, multiHandLandmarks |-> <<ShortHand>>] }

\* results.multiHandLandmarks && results.multiHandLandmarks.length > 0
HasHand(results) == results.hasField /\ Len(results.multiHandLandmarks) > 0

\* The inputs of SpecClassify.
ClassifyInputs ==
    { Hand(21, w, s) : w \in Wrists, s \in [1 .. 5 -> FingerShapes] }
      \cup { Hand(n, Pt(0, 0, 0), AllOpenShape) : n \in {0, 3, 18, 20} }
      \cup { Hand(21, w, [f \in 1 .. 5 |-> s]) : w \in Wrists, s \in RoundedShapes }
      \cup { Hand(21, Pt(0, 0, 0), [AllOpenShape EXCEPT ![f] = s]) :
                 f \in {1, 5}, s \in RoundedShapes }

\* Uniform scalings by a positive factor (an integer k, or 2^k) and
\* translations of an observation.  Every factor is a double, and so is
\* each coordinate it scales.  At 2^-600 every square underflows to 0, at
\* 2^-540 the squares are rounded below the smallest normal double, at 2^508
\* the larger sums of squares overflow, at 2^600 every nonzero square does.
Transforms ==
    { [kind |-> "scale", k |-> k, by |-> Pt(0, 0, 0)] : k \in {2, 3, 5, 45} }
      \cup { [kind |-> "scale2", k |-> k, by |-> Pt(0, 0, 0)] :
                 k \in {-600, -540, -500, -40, 40, 496, 508, 600} }
      \cup { [kind |-> "translate", k |-> 1, by |-> v] :
                 v \in {Pt(1, 2, 3), Pt(-5, 0, 7)} }

NoTransform == [kind |-> "none", k |-> 1, by |-> Pt(0, 0, 0)]

\* The observation with every landmark scaled or translated by t.
Transformed(landmarks, t) ==
    [i \in DOMAIN landmarks |->
        LET p == landmarks[i]
        IN  CASE t.kind = "scale" ->
                   [x |-> t.k * p.x, y |-> t.k * p.y, z |-> t.k * p.z, e |-> p.e]
              [] t.kind = "scale2" -> [p EXCEPT !.e = @ + t.k]
              [] t.kind = "translate" -> PtAdd(p, t.by)
              [] OTHER -> p]

-----------------------------------------------------------------------------
(* The component, as a record that the handlers transform                  *)

Cleared == [image |-> 0, skeleton |-> FALSE]

Cur ==
    [variant |-> variant, phase |-> phase, cameraActive |-> cameraActive,
     videoRef |-> videoRef, canvasRef |-> canvasRef, handsRef |-> handsRef,
     cameraRef |-> cameraRef, hands |-> hands, cameras |-> cameras,
     gestureText |-> gestureText, canvas |-> canvas, requests |-> requests,
     pending |-> pending, console |-> console, faults |-> faults]

Commit(s) ==
    /\ phase' = s.phase
    /\ cameraActive' = s.cameraActive
    /\ videoRef' = s.videoRef
    /\ canvasRef' = s.canvasRef
    /\ handsRef' = s.handsRef
    /\ cameraRef' = s.cameraRef
    /\ hands' = s.hands
    /\ cameras' = s.cameras
    /\ gestureText' = s.gestureText
    /\ canvas' = s.canvas
    /\ requests' = s.requests
    /\ pending' = s.pending
    /\ console' = s.console
    /\ faults' = s.faults

\* setGestureText(text): React drops the update of an unmounted component.
setGestureText(s, text) ==
    IF s.phase = "unmounted" THEN s ELSE [s EXCEPT !.gestureText = text]

\* startCamera without the test of cameraRef.current.
startCamera_Unguarded(s) ==
    IF s.videoRef # "null"
    THEN [s EXCEPT !.cameras = Append(@, "running"),
                   !.cameraRef = Len(s.cameras) + 1]
    ELSE s

\* startCamera (the same text in both components).
startCamera(s) ==
    IF s.videoRef # "null" /\ s.cameraRef = 0
    THEN [s EXCEPT !.cameras = Append(@, "running"),
                   !.cameraRef = Len(s.cameras) + 1]
    ELSE s

\* stopCamera with the canvas and the label reset outside the test of
\* cameraRef.current.
stopCamera_ResetsAlways(s) ==
    LET stopped == IF s.cameraRef # 0
                   THEN [s EXCEPT !.cameras[s.cameraRef] = "stopped",
                                  !.cameraRef = 0]
                   ELSE s
        cleared == IF stopped.canvasRef # "null"
                   THEN [stopped EXCEPT !.canvas = Cleared]
                   ELSE stopped
    IN  setGestureText(cleared, "OFF")

\* stopCamera without cameraRef.current.stop().
stopCamera_NoStop(s) ==
    IF s.cameraRef # 0
    THEN LET stopped == [s EXCEPT !.cameraRef = 0]
             cleared == IF stopped.canvasRef # "null"
                        THEN [stopped EXCEPT !.canvas = Cleared]
                        ELSE stopped
         IN  setGestureText(cleared, "OFF")
    ELSE s

\* stopCamera without the clearRect.
stopCamera_NoClear(s) ==
    IF s.cameraRef # 0
    THEN setGestureText([s EXCEPT !.cameras[s.cameraRef] = "stopped",
                                  !.cameraRef = 0],
                        "OFF")
    ELSE s

\* stopCamera (the same text in both components).
stopCamera(s) ==
    IF s.cameraRef # 0
    THEN LET stopped == [s EXCEPT !.cameras[s.cameraRef] = "stopped",
                                  !.cameraRef = 0]
             cleared == IF stopped.canvasRef # "null"
                        THEN [stopped EXCEPT !.canvas = Cleared]
                        ELSE stopped
         IN  setGestureText(cleared, "OFF")
    ELSE s

\* sendGestureToESP32 putting the new request ahead of the earlier ones.
sendGestureToESP32_Prepends(s, gestureState) ==
    [s EXCEPT !.requests =
                  <<[method |-> "POST",
                     url |-> "http://192.168.4.1/led",
                     contentType |-> "application/x-www-form-urlencoded",
                     body |-> "state=" \o gestureState]>> \o @,
              !.pending = @ \cup {Len(s.requests) + 1}]

\* sendGestureToESP32(gestureState): the fetch call; its promise chain is
\* FetchSettle below.
sendGestureToESP32(s, gestureState) ==
    [s EXCEPT !.requests =
                  Append(@, [method |-> "POST",
                             url |-> "http://192.168.4.1/led",
                             contentType |-> "application/x-www-form-urlencoded",
                             body |-> "state=" \o gestureState]),
              !.pending = @ \cup {Len(s.requests) + 1}]

\* clearRect, drawImage and, for a hand, drawConnectors and drawLandmarks.
Painted(results) == [image |-> results.image, skeleton |-> HasHand(results)]

\* onResults of App with the request left out.
onResults_Unsent(s, results) ==
    IF s.canvasRef = "null"
    THEN s
    ELSE LET drawn == [s EXCEPT !.canvas = Painted(results)]
         IN  IF HasHand(results)
             THEN LET isOpen == areAllFingersOpen(results.multiHandLandmarks[1])
                  IN  IF isOpen.threw
                      THEN [drawn EXCEPT !.faults = @ + 1]
                      ELSE setGestureText(drawn,
                                          IF isOpen.value THEN "ON" ELSE "OFF")
             ELSE drawn

\* onResults of App sending the label of the previous render (gestureText as
\* the callback's closure holds it) instead of newGestureText.
onResults_SendsPrevious(s, results) ==
    IF s.canvasRef = "null"
    THEN s
    ELSE LET drawn == [s EXCEPT !.canvas = Painted(results)]
         IN  IF HasHand(results)
             THEN LET isOpen == areAllFingersOpen(results.multiHandLandmarks[1])
                      newGestureText == IF isOpen.value THEN "ON" ELSE "OFF"
                  IN  IF isOpen.threw
                      THEN [drawn EXCEPT !.faults = @ + 1]
                      ELSE sendGestureToESP32(
                               setGestureText(drawn, newGestureText),
                               s.gestureText)
             ELSE drawn

\* onResults of App.  When areAllFingersOpen throws, the exception leaves
\* onResults after the drawing and before setGestureText; what the detector
\* and the Camera do with it is theirs, and the session is left as it is.
onResults(s, results) ==
    IF s.canvasRef = "null"
    THEN s
    ELSE LET drawn == [s EXCEPT !.canvas = Painted(results)]
         IN  IF HasHand(results)
             THEN LET landmarks == results.multiHandLandmarks[1]
                      isOpen == areAllFingersOpen(landmarks)
                      newGestureText == IF isOpen.value THEN "ON" ELSE "OFF"
                  IN  IF isOpen.threw
                      THEN [drawn EXCEPT !.faults = @ + 1]
                      ELSE sendGestureToESP32(
                               setGestureText(drawn, newGestureText),
                               newGestureText)
             ELSE drawn

\* onResults of HandGesture with the drawing moved inside the test for a hand.
onResults_HandGesture_PaintsHandOnly(s, results) ==
    IF s.canvasRef = "null"
    THEN s
    ELSE IF HasHand(results)
         THEN LET drawn == [s EXCEPT !.canvas = Painted(results)]
                  isOpen == areAllFingersOpen(results.multiHandLandmarks[1])
              IN  IF isOpen.threw
                  THEN [drawn EXCEPT !.faults = @ + 1]
                  ELSE setGestureText(drawn,
                                      IF isOpen.value THEN "ON" ELSE "OFF")
         ELSE s

\* onResults of HandGesture: the same, without the request.
onResults_HandGesture(s, results) ==
    IF s.canvasRef = "null"
    THEN s
    ELSE LET drawn == [s EXCEPT !.canvas = Painted(results)]
         IN  IF HasHand(results)
             THEN LET landmarks == results.multiHandLandmarks[1]
                      isOpen == areAllFingersOpen(landmarks)
                  IN  IF isOpen.threw
                      THEN [drawn EXCEPT !.faults = @ + 1]
                      ELSE setGestureText(drawn,
                                          IF isOpen.value THEN "ON" ELSE "OFF")
             ELSE drawn

\* initializeHandTracking of App: a new Hands, then startCamera.
initializeHandTracking(s) ==
    LET made == [s EXCEPT !.hands = @ + 1, !.handsRef = s.hands + 1]
    IN  IF made.videoRef # "null" THEN startCamera(made) ELSE made

\* initializeHandTracking of HandGesture starting the camera whatever
\* cameraActive is.
initializeHandTracking_HandGesture_Always(s) ==
    LET made == [s EXCEPT !.hands = @ + 1, !.handsRef = s.hands + 1]
    IN  IF made.videoRef # "null" THEN startCamera(made) ELSE made

\* initializeHandTracking of HandGesture: startCamera only if cameraActive.
initializeHandTracking_HandGesture(s) ==
    LET made == [s EXCEPT !.hands = @ + 1, !.handsRef = s.hands + 1]
    IN  IF made.cameraActive /\ made.videoRef # "null"
        THEN startCamera(made)
        ELSE made

\* fetchSettled with a catch handler that also resets the label.
fetchSettled_ResetsOnError(s, i, outcome) ==
    [s EXCEPT !.pending = @ \ {i},
              !.console = IF outcome = "rejected" THEN "error" ELSE "LED state",
              !.gestureText = IF outcome = "rejected" THEN "OFF" ELSE @]

\* The promise chain of sendGestureToESP32 for request i.  A response, whatever
\* its status, is read and logged; a rejection is logged by the catch handler.
fetchSettled(s, i, outcome) ==
    [s EXCEPT !.pending = @ \ {i},
              !.console = IF outcome = "rejected" THEN "error" ELSE "LED state"]

FetchOutcomes == {"ok", "httpError", "rejected"}

-----------------------------------------------------------------------------
(* Actions                                                                 *)

\* The label the classifier gives the hand of `results`, when it gives one.
Classified(results) ==
    HasHand(results) /\ ~areAllFingersOpen(results.multiHandLandmarks[1]).threw

LabelOf(results) ==
    IF areAllFingersOpen(results.multiHandLandmarks[1]).value THEN "ON" ELSE "OFF"

\* The first run of the effect.
Mount ==
    /\ phase = "rendered"
    /\ LET s == [Cur EXCEPT !.phase = "mounted"]
       IN  Commit(IF variant = "App"
                  THEN initializeHandTracking(s)
                  ELSE initializeHandTracking_HandGesture(s))
    /\ UNCHANGED <<variant, inflight, frames, toggles, loopVars, historyVars,
                   clsVars>>

\* A click: cameraActive flips, the effect's cleanup runs and the effect runs
\* again.
toogleCamera ==
    /\ variant = "HandGesture"
    /\ phase = "mounted"
    /\ toggles < MaxToggles
    /\ toggles' = toggles + 1
    /\ Commit(initializeHandTracking_HandGesture(
                  stopCamera([Cur EXCEPT !.cameraActive = ~@])))
    /\ UNCHANGED <<variant, inflight, frames, loopVars, historyVars, clsVars>>

\* The component is removed: React detaches the refs, then runs the effect's
\* cleanup.
Unmount ==
    /\ phase = "mounted"
    /\ Commit(stopCamera([Cur EXCEPT !.phase = "unmounted",
                                     !.videoRef = "null",
                                     !.canvasRef = "null"]))
    /\ UNCHANGED <<variant, inflight, frames, toggles, loopVars, historyVars,
                   clsVars>>

\* onFrame of Camera c: the Camera waits for the promise of one frame before
\* it takes the next one.
onFrame(c) ==
    /\ cameras[c] = "running"
    /\ c \notin stalled
    /\ frames < MaxFrames
    /\ \A f \in inflight : f.cam # c
    /\ frames' = frames + 1
    /\ inflight' = IF handsRef # 0
                   THEN inflight \cup {[cam |-> c, hands |-> handsRef,
                                        image |-> frames + 1]}
                   ELSE inflight
    /\ UNCHANGED <<variant, toggles, componentVars, loopVars, historyVars,
                   clsVars>>

\* The detector delivers the result of frame f to the listener.
DetectorResult(f, results) ==
    /\ f \in inflight
    /\ results \in ResultsOf(f.image)
    /\ inflight' = inflight \ {f}
    /\ LET after == IF variant = "App"
                    THEN onResults(Cur, results)
                    ELSE onResults_HandGesture(Cur, results)
       IN  /\ Commit(after)
           /\ sentFor' = IF Len(after.requests) > Len(requests)
                         THEN Append(sentFor, f.image)
                         ELSE sentFor
    /\ labelFrame' = IF canvasRef # "null" /\ Classified(results)
                     THEN f.image
                     ELSE labelFrame
    /\ UNCHANGED <<variant, frames, toggles, loopVars, clsVars>>

\* handsRef.current.send rejects for frame f: onFrame has no try, so the
\* promise it returned to the Camera rejects.  Whether the Camera then asks for
\* another frame is the Camera's own code: both outcomes are taken.
DetectorFailure(f, loopGoesOn) ==
    /\ f \in inflight
    /\ inflight' = inflight \ {f}
    /\ frameFaults' = frameFaults + 1
    /\ stalled' = IF loopGoesOn THEN stalled ELSE stalled \cup {f.cam}
    /\ UNCHANGED <<variant, frames, toggles, componentVars, historyVars,
                   clsVars>>

\* The fetch of request i settles.
FetchSettle(i, outcome) ==
    /\ i \in pending
    /\ Commit(fetchSettled(Cur, i, outcome))
    /\ UNCHANGED <<variant, inflight, frames, toggles, loopVars, historyVars,
                   clsVars>>

Init ==
    /\ variant \in {"App", "HandGesture"}
    /\ phase = "rendered"
    /\ cameraActive = FALSE
    /\ videoRef = "video"
    /\ canvasRef = "canvas"
    /\ handsRef = 0
    /\ cameraRef = 0
    /\ hands = 0
    /\ cameras = <<>>
    /\ inflight = {}
    /\ frames = 0
    /\ toggles = 0
    /\ gestureText = "OFF"
    /\ canvas = Cleared
    /\ requests = <<>>
    /\ pending = {}
    /\ console = "none"
    /\ faults = 0
    /\ frameFaults = 0
    /\ stalled = {}
    /\ sentFor = <<>>
    /\ labelFrame = 0
    /\ clsInput = OpenHand
    /\ clsDone = FALSE
    /\ clsOutput = [threw |-> FALSE, value |-> FALSE]
    /\ trBy = NoTransform
    /\ trInput = OpenHand
    /\ trOutput = [threw |-> FALSE, value |-> FALSE]

Next ==
    \/ Mount
    \/ toogleCamera
    \/ Unmount
    \/ \E c \in DOMAIN cameras : onFrame(c)
    \/ \E f \in inflight : \E results \in ResultsOf(f.image) :
           DetectorResult(f, results)
    \/ \E f \in inflight : \E loopGoesOn \in BOOLEAN :
           DetectorFailure(f, loopGoesOn)
    \/ \E i \in pending : \E outcome \in FetchOutcomes : FetchSettle(i, outcome)

Spec == Init /\ [][Next]_vars

-----------------------------------------------------------------------------
(* The classifier on its own                                               *)

InitClassify ==
    /\ Init
    /\ variant = "App"

Classify ==
    /\ ~clsDone
    /\ \E landmarks \in ClassifyInputs :
          /\ clsInput' = landmarks
          /\ clsOutput' = areAllFingersOpen(landmarks)
    /\ clsDone' = TRUE
    /\ UNCHANGED <<variant, inflight, frames, toggles, componentVars, loopVars,
                   historyVars, trBy, trInput, trOutput>>

\* The classified observation is scaled or translated and classified again.
ClassifyTransformed(t) ==
    /\ clsDone
    /\ trBy = NoTransform
    /\ trBy' = t
    /\ trInput' = Transformed(clsInput, t)
    /\ trOutput' = areAllFingersOpen(Transformed(clsInput, t))
    /\ UNCHANGED <<variant, inflight, frames, toggles, componentVars, loopVars,
                   historyVars, clsInput, clsDone, clsOutput>>

NextClassify ==
    \/ Classify
    \/ \E t \in Transforms : ClassifyTransformed(t)

SpecClassify == InitClassify /\ [][NextClassify]_vars

-----------------------------------------------------------------------------
(* Properties                                                              *)

Running == {c \in DOMAIN cameras : cameras[c] = "running"}

\* C1: a request is dispatched only by a step that changes the gesture state:
\* a frame whose label equals the current state dispatches nothing.
C1_DispatchOnlyOnChange ==
    [][Len(requests') > Len(requests) => gestureText' # gestureText]_vars

\* C2: in App, a result of a running session whose classified label differs
\* from the current gesture state dispatches exactly one request, carrying that
\* label, and sets the status label to it.
C2_OneDispatchPerChange ==
    [][\A f \in inflight : \A r \in ResultsOf(f.image) :
          ( /\ variant = "App"
            /\ DetectorResult(f, r)
            /\ cameras[f.cam] = "running"
            /\ Classified(r)
            /\ LabelOf(r) # gestureText )
          => /\ Len(requests') = Len(requests) + 1
             /\ requests'[Len(requests')].body = "state=" \o LabelOf(r)
             /\ SubSeq(requests', 1, Len(requests)) = requests
             /\ gestureText' = LabelOf(r)]_vars

\* C2 witness: from OFF, an OPEN frame and then a CLOSED frame: two requests,
\* ON then OFF, and the label back to OFF.
C2_Witness ==
    /\ variant = "App"
    /\ Len(requests) = 2
    /\ requests[1].body = "state=ON"
    /\ requests[2].body = "state=OFF"
    /\ gestureText = "OFF"

\* C3: a result without a hand, applied to a running session, leaves the
\* status label OFF.
C3_NoHandIsOff ==
    [][\A f \in inflight : \A r \in ResultsOf(f.image) :
          ( /\ DetectorResult(f, r)
            /\ cameras[f.cam] = "running"
            /\ ~HasHand(r) )
          => gestureText' = "OFF"]_vars

\* C4: a result delivered after its session's Camera was stopped paints
\* nothing, leaves the status label alone and dispatches nothing.
C4_LateResultDiscarded ==
    [][\A f \in inflight : \A r \in ResultsOf(f.image) :
          ( /\ DetectorResult(f, r)
            /\ cameras[f.cam] = "stopped" )
          => UNCHANGED <<canvas, gestureText, requests>>]_vars

\* C5: while the component is mounted and a stopped session has not been
\* followed by a new one, the status label is OFF.
C5_OffWhileStopped ==
    (phase = "mounted" /\ cameraRef = 0 /\ Len(cameras) > 0)
        => gestureText = "OFF"

\* C6: at most one Camera runs, it is the one cameraRef holds, startCamera
\* changes nothing while cameraRef holds a Camera, and no frame is in flight
\* twice.
C6_AtMostOneSession ==
    /\ Cardinality(Running) <= 1
    /\ \A c \in Running : c = cameraRef
    /\ cameraRef # 0 => startCamera(Cur) = Cur
    /\ \A f, g \in inflight : f.image = g.image => f = g

\* C6 witness: a second session runs after the first one was stopped.
C6_Witness ==
    /\ Len(cameras) = 2
    /\ cameras[1] = "stopped"
    /\ cameras[2] = "running"
    /\ cameraRef = 2

\* Everything of the component but the console.
PipelineOf(s) == [s EXCEPT !.console = "none"]

\* C7: when a request fails (rejected, or answered with an error status) the
\* step leaves the status label, the Cameras and the canvas as they were, and
\* the component is in the state a successful answer would have left it in,
\* the console line apart.
C7_FailedNotifyIsInert ==
    [][\A i \in pending :
          (FetchSettle(i, "rejected") \/ FetchSettle(i, "httpError"))
          => /\ UNCHANGED <<gestureText, cameras, cameraRef, handsRef, canvas,
                            phase, requests, inflight, frames>>
             /\ PipelineOf(Cur') = PipelineOf(fetchSettled(Cur, i, "ok"))]_vars

\* C7 witness: a rejection has been logged while the session runs with the
\* label ON.
C7_Witness ==
    /\ console = "error"
    /\ cameraRef # 0
    /\ cameras[cameraRef] = "running"
    /\ gestureText = "ON"

\* C8: no exception leaves onResults.
C8_NoUnhandledFault == faults = 0

\* The squared distances of finger f of a complete observation.
TipSq(landmarks, f) == distSq(landmarks[FingerTip[f]], landmarks[0])
BaseSq(landmarks, f) == distSq(landmarks[FingerBase[f]], landmarks[0])

\* The ratio of finger f is exactly 1.7 and its two distances are irrational.
RoundingDecides(landmarks, f) ==
    /\ BaseSq(landmarks, f) > 0
    /\ 100 * TipSq(landmarks, f) = 289 * BaseSq(landmarks, f)
    /\ \A n \in 1 .. BaseSq(landmarks, f) : n * n # BaseSq(landmarks, f)

\* C9: for a complete observation areAllFingersOpen returns true exactly when
\* each of the five quotients dist(tip, wrist) / dist(base, wrist), as the
\* doubles the code computes (the rounded quotient of the two rounded square
\* roots; x / 0 is Infinity, 0 / 0 is NaN), is greater than the double 1.7;
\* a quotient of exactly 1.7 gives false.
C9_OpenIffQuotientsAbove ==
    (clsDone /\ trBy = NoTransform /\ DOMAIN clsInput = 0 .. 20)
        => /\ ~clsOutput.threw
           /\ clsOutput.value =
                  (\A f \in 1 .. 5 :
                      \/ BaseSq(clsInput, f) = 0 /\ TipSq(clsInput, f) > 0
                      \/ /\ BaseSq(clsInput, f) > 0
                         /\ TipSq(clsInput, f) > 0
                         /\ FGreater(FDiv(FSqrt(TipSq(clsInput, f)),
                                          FSqrt(BaseSq(clsInput, f))),
                                     threshold))

\* C9 witness: four ratios of 1.8 and a pinky ratio of exactly 1.7 give false.
C9_Witness ==
    /\ clsDone
    /\ clsInput = FistHand
    /\ ~clsOutput.threw
    /\ ~clsOutput.value

\* C10: every request is a POST to /led with the body state=ON or state=OFF,
\* and a step that dispatches one is the delivery of a classified hand whose
\* label is the value sent and the value written to the status label.
C10_RequestShape ==
    /\ [](\A i \in DOMAIN requests :
             /\ requests[i].method = "POST"
             /\ requests[i].url = "http://192.168.4.1/led"
             /\ requests[i].contentType = "application/x-www-form-urlencoded"
             /\ requests[i].body \in {"state=ON", "state=OFF"})
    /\ [][Len(requests') > Len(requests) =>
             \E f \in inflight : \E r \in ResultsOf(f.image) :
                /\ DetectorResult(f, r)
                /\ Classified(r)
                /\ Len(requests') = Len(requests) + 1
                /\ requests'[Len(requests')].body = "state=" \o LabelOf(r)
                /\ gestureText' = LabelOf(r)]_vars

\* C10 witness: a CLOSED frame and then an OPEN frame were sent as OFF, ON.
C10_Witness ==
    /\ Len(requests) = 2
    /\ requests[1].body = "state=OFF"
    /\ requests[2].body = "state=ON"
    /\ gestureText = "ON"

\* C11: a step that stops the session leaves neither its Camera nor its Hands
\* in the refs, and a step that starts a session makes a new Camera and a new
\* Hands.
C11_StopReleasesSession ==
    [][/\ (cameraRef # 0 /\ cameraRef' = 0) => handsRef' # handsRef
       /\ (cameraRef = 0 /\ cameraRef' # 0) =>
              /\ cameraRef' = Len(cameras) + 1
              /\ handsRef' = hands + 1
              /\ hands' = hands + 1]_vars

\* C12: stopCamera called with no Camera in cameraRef returns the state it was
\* given, and a click or an unmount in that state leaves the canvas and the
\* status label as they were.
C12_StopWhileIdleIsNoOp ==
    /\ [](cameraRef = 0 => stopCamera(Cur) = Cur)
    /\ [][(cameraRef = 0 /\ (toogleCamera \/ Unmount))
            => UNCHANGED <<canvas, gestureText>>]_vars

\* C12 witness: a late result had painted frame 1 and set the label while no
\* session ran; the next click ran stopCamera idle, left both, and started the
\* second Camera.
C12_Witness ==
    /\ cameraRef = 2
    /\ frames = 1
    /\ inflight = {}
    /\ gestureText = "ON"
    /\ canvas = [image |-> 1, skeleton |-> TRUE]

\* C13: once unmounted, no Camera runs, cameraRef is null, and no step changes
\* the status label, the canvas, the requests or the Cameras.
C13_DisposedIsTerminal ==
    /\ [](phase = "unmounted" => (cameraRef = 0 /\ Running = {}))
    /\ [][phase = "unmounted"
            => UNCHANGED <<phase, gestureText, canvas, requests, cameras,
                           cameraRef>>]_vars

\* C13 witness: App was unmounted with frame 1 in flight; its result has been
\* delivered and has painted and sent nothing.
C13_Witness ==
    /\ variant = "App"
    /\ phase = "unmounted"
    /\ frames = 1
    /\ inflight = {}
    /\ canvas = Cleared
    /\ requests = <<>>

\* C14: a rejected send is contained: no rejection leaves onFrame and the
\* Camera's frame loop goes on.
C14_DetectorFailureContained ==
    [][\A f \in inflight : \A loopGoesOn \in BOOLEAN :
          DetectorFailure(f, loopGoesOn)
          => (frameFaults' = frameFaults /\ stalled' = stalled)]_vars

\* C15: requests are issued in the order of the frames that caused them, and
\* a request once issued keeps its place, answered or not.
C15_DispatchInFrameOrder ==
    /\ [](/\ Len(sentFor) = Len(requests)
          /\ \A i, j \in DOMAIN sentFor : i < j => sentFor[i] < sentFor[j])
    /\ [][/\ Len(requests') >= Len(requests)
          /\ SubSeq(requests', 1, Len(requests)) = requests]_vars

\* C15 witness: the requests of frames 1 and 2 are both unanswered.
C15_Witness ==
    /\ sentFor = <<1, 2>>
    /\ Len(requests) = 2
    /\ pending = {1, 2}

\* C16: a classified hand applied to the mounted component sets the status
\* label to its label, and is never the hand of a frame older than one
\* already classified.
C16_LabelIsNewest ==
    [][\A f \in inflight : \A r \in ResultsOf(f.image) :
          (DetectorResult(f, r) /\ phase = "mounted" /\ Classified(r))
          => (gestureText' = LabelOf(r) /\ f.image > labelFrame)]_vars

\* C17: every result of a running session repaints the canvas with its own
\* frame, and with the skeleton exactly when it holds a hand.
C17_AlwaysRepaints ==
    [][\A f \in inflight : \A r \in ResultsOf(f.image) :
          (DetectorResult(f, r) /\ cameras[f.cam] = "running")
          => canvas' = [image |-> f.image, skeleton |-> HasHand(r)]]_vars

\* C17 witness: frame 2 held no hand and was painted while the session runs
\* and the label stays ON.
C17_Witness ==
    /\ cameraRef # 0
    /\ labelFrame = 1
    /\ gestureText = "ON"
    /\ canvas = [image |-> 2, skeleton |-> FALSE]

\* C18 as claimed: a step that stops the session stops its Camera, nulls
\* cameraRef, clears the canvas and sets the status label to OFF.
C18_StopClearsAndResets ==
    [][(cameraRef # 0 /\ cameraRef' = 0)
        => /\ cameras'[cameraRef] = "stopped"
           /\ canvas' = Cleared
           /\ gestureText' = "OFF"]_vars

\* C18 amended: a step that stops the session stops its Camera and nulls
\* cameraRef; the canvas is cleared if it is still attached and the status
\* label is set to OFF if the component is still mounted.
C18_StopClearsWhileAttached ==
    [][(cameraRef # 0 /\ cameraRef' = 0)
        => /\ cameras'[cameraRef] = "stopped"
           /\ canvasRef' # "null" => canvas' = Cleared
           /\ phase' # "unmounted" => gestureText' = "OFF"]_vars

\* C18 witness: frame 1 was classified and painted, then a click stopped the
\* session: the canvas is clear and the label OFF.
C18_Witness ==
    /\ phase = "mounted"
    /\ cameras = <<"stopped">>
    /\ cameraRef = 0
    /\ labelFrame = 1
    /\ inflight = {}
    /\ canvas = Cleared
    /\ gestureText = "OFF"

\* C20: in HandGesture, while mounted, a Camera is held and running exactly
\* when cameraActive is true, which is after an odd number of clicks.
C20_SessionIffActive ==
    (variant = "HandGesture" /\ phase = "mounted")
        => /\ cameraActive = (toggles % 2 = 1)
           /\ (cameraRef # 0) = cameraActive
           /\ Cardinality(Running) = IF cameraActive THEN 1 ELSE 0

\* C20 witness: after three clicks the second Camera runs.
C20_Witness ==
    /\ variant = "HandGesture"
    /\ toggles = 3
    /\ cameraActive
    /\ cameras = <<"stopped", "running">>
    /\ cameraRef = 2

\* C19 as claimed: an observation scaled by any positive factor, or
\* translated, gets the same label as the original.
C19_ScaleTranslateInvariant ==
    trBy # NoTransform => trOutput = clsOutput

\* C19 amended: the label is the same after a translation, after a scaling by
\* a power of two under which no square overflows or underflows, and after a
\* scaling by an integer of an observation in which no ratio is exactly 1.7
\* with irrational distances.
C19_InvariantWithinRange ==
    (/\ trBy # NoTransform
     /\ trBy.kind = "scale2" => (trBy.k >= -500 /\ trBy.k <= 496)
     /\ trBy.kind = "scale" =>
            \/ DOMAIN clsInput # 0 .. 20
            \/ \A f \in 1 .. 5 : ~RoundingDecides(clsInput, f))
        => trOutput = clsOutput

\* C19 witness: the open hand scaled by 3 is open.
C19_Witness ==
    /\ clsInput = OpenHand
    /\ trBy.kind = "scale"
    /\ trBy.k = 3
    /\ trInput[8] = Pt(54, 0, 0)
    /\ ~trOutput.threw
    /\ trOutput.value

====
